---- MODULE Spec2Model ----
(***************************************************************************)
(* Model of the sequential Bayesian learning repository:                   *)
(*   - SBL_Cat_Dir  (src/sbl_cat_dir.py): Categorical-Dirichlet learner    *)
(*   - SBL_GRW      (src/sbl_grw.py):     grid filter, Gaussian random walk*)
(*   - seq_gen      (src/seq_gen.py):     regime-switching generator       *)
(* Real numbers are modelled as exact rationals <<n, d>>.  Each object is   *)
(* one variable holding a record of its fields.                             *)
(***************************************************************************)
EXTENDS Integers, Sequences, FiniteSets, TLC

VARIABLES cd, grw, gen

vars == <<cd, grw, gen>>

(***************************************************************************)
(* Exact rational arithmetic.  A number is <<n, d>> in lowest terms with   *)
(* d > 0.  numpy's results of a division by zero are <<0, 0>> (nan) and     *)
(* <<1, 0>> (inf).                                                          *)
(***************************************************************************)
Abs(x) == IF x < 0 THEN -x ELSE x

RECURSIVE GCD(_, _)
GCD(a, b) == IF b = 0 THEN a ELSE GCD(b, a % b)

Rat(n, d) ==
  LET s == IF d < 0 THEN -1 ELSE 1
      g == GCD(Abs(n), Abs(d))
  IN <<(s * n) \div g, (s * d) \div g>>

RInt(n) == <<n, 1>>
RZero == <<0, 1>>
ROne == <<1, 1>>
RHalf == <<1, 2>>
NaN == <<0, 0>>
Inf == <<1, 0>>

IsFinite(x) == x[2] # 0

RAdd(x, y) ==
  LET g == GCD(x[2], y[2])
      l == (x[2] \div g) * y[2]
  IN Rat(x[1] * (l \div x[2]) + y[1] * (l \div y[2]), l)

RNeg(x) == <<-x[1], x[2]>>
RSub(x, y) == RAdd(x, RNeg(y))

RMul(x, y) ==
  LET a == Rat(x[1], y[2])
      b == Rat(y[1], x[2])
  IN <<a[1] * b[1], a[2] * b[2]>>

\* x / y for y # 0
RDiv(x, y) == RMul(x, Rat(y[2], y[1]))

RLe(x, y) == x[1] * y[2] <= y[1] * x[2]
RLt(x, y) == x[1] * y[2] < y[1] * x[2]
RAbs(x) == <<Abs(x[1]), x[2]>>

RECURSIVE RPow(_, _)
RPow(x, n) == IF n = 0 THEN ROne ELSE RMul(x, RPow(x, n - 1))

\* Sum of the values of a function with a finite domain.
RECURSIVE RSumOver(_, _)
RSumOver(f, S) ==
  IF S = {} THEN RZero
  ELSE LET e == CHOOSE x \in S : TRUE
       IN RAdd(f[e], RSumOver(f, S \ {e}))

RSum(f) == RSumOver(f, DOMAIN f)

\* numpy's a / b on floats: nan for 0/0, inf for x/0, no exception.
np_div(a, b) ==
  IF b[1] = 0 THEN (IF a[1] = 0 THEN NaN ELSE Inf) ELSE RDiv(a, b)

(***************************************************************************)
(* Bounds of the model.                                                    *)
(***************************************************************************)
\* longest observation sequence handed to the Dirichlet learner
MaxT == 4
\* longest observation sequence handed to the grid filter
GRW_MaxT == 3
\* most direct calls of the grid filter's update_posterior on one object
GRW_MaxCalls == 2
\* points per axis of the lookup grid that update_posterior builds; the
\* source's literal is 70 (src/sbl_grw.py lines 44-45), scaled down here
LookupRes == 3


(***************************************************************************)
(* SBL_Cat_Dir: the Categorical-Dirichlet learner (src/sbl_cat_dir.py).    *)
(* Arrays are functions over Python's indices 0..n-1; a Dirichlet state    *)
(* (alphas) is a function over index tuples: <<c>> for the vectors of SP   *)
(* and AP, <<i, j>> for the matrix of TP.                                   *)
(***************************************************************************)
Obs == {0, 1, 2}

\* the model_type strings a caller can pass; "XX" is not a model type
CD_Types == {"SP", "AP", "TP", "XX"}

\* exp(-tau): tau = 0 and tau = ln 2
CD_Decays == {ROne, RHalf}

CD_Seqs == UNION {[0 .. n - 1 -> Obs] : n \in 1 .. MaxT}

\* np.unique(seq).shape[0]
no_obs_of(seq) == Cardinality({seq[k] : k \in DOMAIN seq})

\* the index tuples of alphas, per model type (lines 50-55)
CD_Entries(type, n) ==
  CASE type = "SP" -> {<<c>> : c \in 0 .. n - 1}
    [] type = "AP" -> {<<0>>, <<1>>}
    [] type = "TP" -> (0 .. n - 1) \X (0 .. n - 1)
    [] OTHER -> {}

\* np.ones(shape)
CD_ones(type, n) == [e \in CD_Entries(type, n) |-> ROne]

\* __init__, lines 27-32 and 41-45: the column indices written into the
\* (T x no_obs) tables stim_ind and transitions; an index >= no_obs raises
\* IndexError.
CD_init_index_ok(seq, T, n) ==
  /\ \A t \in 0 .. T - 1 : seq[t] < n
  /\ (T >= 2 => 2 < n)

\* the object before __init__ has run: only the caller's arguments are set
CD_New(seq, decay, type, entry) ==
  [pc |-> "new", err |-> "", entry |-> entry,
   sequence |-> seq, T |-> 0, type |-> type, decay |-> decay, no_obs |-> 0,
   stim_ind |-> <<>>, repetition |-> <<>>, transitions |-> <<>>,
   alphas |-> <<>>, alphas_old |-> <<>>, t |-> -1, updated |-> FALSE,
   warning |-> "",
   max_T |-> 0, loop_t |-> 0, ind |-> <<>>, ps_prob |-> RZero,
   predictive |-> <<>>, results |-> <<>>]

\* SBL_Cat_Dir.__init__ (lines 17-57)
CD_init(o) ==
  LET seq == o.sequence
      T == Cardinality(DOMAIN seq)
      n == no_obs_of(seq)
      stim == [t \in 0 .. T - 1 |-> [c \in 0 .. n - 1 |->
                 IF seq[t] = c THEN 1 ELSE 0]]
      rep == [t \in 0 .. T - 1 |->
                 IF t >= 1 /\ seq[t] = seq[t - 1] THEN 1 ELSE 0]
      trans == [t \in 0 .. T - 1 |-> [c \in 0 .. n - 1 |->
                 IF t >= 1 /\ seq[t - 1] = c THEN 1 ELSE 0]]
  IN IF ~CD_init_index_ok(seq, T, n)
       THEN [o EXCEPT !.pc = "failed", !.err = "IndexError", !.T = T,
                      !.no_obs = n]
     ELSE IF o.type \notin {"SP", "AP", "TP"}
       THEN [o EXCEPT !.pc = "failed", !.err = "Exception", !.T = T,
                      !.no_obs = n, !.stim_ind = stim, !.repetition = rep,
                      !.transitions = trans]
     ELSE [o EXCEPT !.pc = "constructed", !.T = T, !.no_obs = n,
                    !.stim_ind = stim, !.repetition = rep,
                    !.transitions = trans,
                    !.alphas = CD_ones(o.type, n)]

\* The term of entry e at timestep k that update_posterior sums
\* (lines 65, 73-74, 85).
CD_indicator(o, e, k) ==
  CASE o.type = "SP" -> o.stim_ind[k][e[1]]
    [] o.type = "AP" -> IF e[1] = 0 THEN o.repetition[k]
                                    ELSE 1 - o.repetition[k]
    [] o.type = "TP" -> o.stim_ind[k][e[2]] * o.transitions[k][e[1]]

\* exp_weighting = exp_forgetting[-(t+1):] (lines 48, 61): the weight that
\* meets row k of a table sliced [:t+1]; both slices stop at T rows.
CD_exp_weighting(o, t, k) ==
  LET last == IF t < o.T - 1 THEN t ELSE o.T - 1
  IN RPow(o.decay, last - k)

\* 1 + np.dot(exp_weighting, indicator[:t+1])
CD_weighted_count(o, t, e) ==
  LET last == IF t < o.T - 1 THEN t ELSE o.T - 1
      term == [k \in 0 .. last |->
                 RMul(CD_exp_weighting(o, t, k), RInt(CD_indicator(o, e, k)))]
  IN RAdd(ROne, RSum(term))

\* update_posterior without the first-observation branches of lines 68-71
\* and 78-80: every entry is a weighted count.
CD_update_posterior_counts(o, t) ==
  [e \in CD_Entries(o.type, o.no_obs) |-> CD_weighted_count(o, t, e)]

\* SBL_Cat_Dir.update_posterior (lines 60-85): the alphas it leaves
CD_update_posterior(o, t) ==
  IF o.type \in {"AP", "TP"} /\ t = 0
  THEN CD_ones(o.type, o.no_obs)
  ELSE [e \in CD_Entries(o.type, o.no_obs) |-> CD_weighted_count(o, t, e)]

\* update_posterior, lines 69 and 79: the text it prints, "" when it prints
\* nothing
CD_update_warning(o, t) ==
  IF o.type \in {"AP", "TP"} /\ t = 0
  THEN "Can't update posterior with only one observation - need two!"
  ELSE ""

\* alphas.sum(axis=0) at entry e: the total of a vector, the column sum
\* (over the first index) of a matrix.
CD_sum_axis0(alphas, e) ==
  IF Len(e) = 1 THEN RSum(alphas)
  ELSE RSum([i \in {x[1] : x \in DOMAIN alphas} |-> alphas[<<i, e[2]>>]])

\* SBL_Cat_Dir.posterior_predictive (lines 87-88)
CD_posterior_predictive(alphas) ==
  [e \in DOMAIN alphas |-> RDiv(alphas[e], CD_sum_axis0(alphas, e))]

\* np.argmax of a 0/1 row: the first index holding the maximum
np_argmax(row) ==
  CHOOSE i \in DOMAIN row :
    /\ \A j \in DOMAIN row : row[j] <= row[i]
    /\ \A j \in DOMAIN row : j < i => row[j] < row[i]

\* compute_surprisal, lines 112-118: the index of the realized outcome
CD_realized_index(o, t) ==
  CASE o.type = "SP" -> <<o.sequence[t]>>
    [] o.type = "AP" -> <<o.repetition[t]>>
    [] o.type = "TP" -> <<np_argmax(o.transitions[t]),
                          np_argmax(o.stim_ind[t])>>

\* One iteration of the loop of compute_surprisal (lines 106-134).
CD_compute_iteration(o) ==
  LET t == o.loop_t
      new == CD_update_posterior(o, t)
      upd == [o EXCEPT !.alphas_old = o.alphas, !.t = t, !.alphas = new,
                       !.updated = TRUE,
                       !.warning = CD_update_warning(o, t)]
  IN IF t >= o.T
       THEN [upd EXCEPT !.pc = "failed", !.err = "IndexError"]
     ELSE LET ind == CD_realized_index(o, t)
              pred == CD_posterior_predictive(new)
          IN [upd EXCEPT !.pc = "computing", !.loop_t = t + 1,
                         !.ind = ind, !.predictive = pred,
                         !.ps_prob = pred[ind],
                         !.results = Append(o.results,
                            [t |-> t, obs |-> o.sequence[t], ind |-> ind,
                             prob |-> pred[ind], alphas |-> new])]

(***************************************************************************)
(* Actions of the Dirichlet learner.  entry = "main": main() constructs    *)
(* and runs compute_surprisal(max_T = T).  entry = "test": test_agent()    *)
(* constructs with tau = 0, sets t = 2, updates, and runs                  *)
(* compute_surprisal(max_T = 3).                                           *)
(***************************************************************************)
CD_Construct ==
  /\ cd.pc = "new"
  /\ cd' = CD_init(IF cd.entry = "test" THEN [cd EXCEPT !.decay = ROne]
                                         ELSE cd)
  /\ UNCHANGED <<grw, gen>>

\* test_agent, lines 172-173
CD_TestAgentUpdate ==
  /\ cd.pc = "constructed"
  /\ cd.entry = "test"
  /\ cd' = [cd EXCEPT !.t = 2, !.alphas = CD_update_posterior(cd, 2),
                      !.updated = TRUE, !.pc = "tested",
                      !.warning = CD_update_warning(cd, 2)]
  /\ UNCHANGED <<grw, gen>>

\* compute_surprisal is entered: main line 144, test_agent line 177
CD_ComputeEnter ==
  /\ \/ cd.pc = "constructed" /\ cd.entry = "main"
     \/ cd.pc = "tested"
  /\ cd' = [cd EXCEPT !.pc = "computing", !.loop_t = 0, !.results = <<>>,
                      !.max_T = IF cd.entry = "main" THEN cd.T ELSE 3]
  /\ UNCHANGED <<grw, gen>>

CD_ComputeStep ==
  /\ cd.pc = "computing"
  /\ cd.loop_t < cd.max_T
  /\ cd' = CD_compute_iteration(cd)
  /\ UNCHANGED <<grw, gen>>

CD_ComputeReturn ==
  /\ cd.pc = "computing"
  /\ cd.loop_t = cd.max_T
  /\ cd' = [cd EXCEPT !.pc = "done"]
  /\ UNCHANGED <<grw, gen>>

CD_Idle == CD_New([k \in 0 .. 0 |-> 0], ROne, "SP", "main")


(***************************************************************************)
(* SBL_GRW: the grid filter (src/sbl_grw.py).                              *)
(***************************************************************************)
\* the end points of the lookup grid in update_posterior (lines 44-45)
LookupMin == -5
LookupMax == 5

\* the type strings a caller can pass to the grid filter; the command
\* line's help text offers "TP" (line 182), update_posterior knows SP and AP
GRW_Types == {"SP", "AP", "TP"}

GRW_Seqs == UNION {[0 .. n - 1 -> {0, 1}] : n \in 2 .. GRW_MaxT}

\* the configured grids {s_min, s_max, s_res} and step sizes sigma
GRW_Ranges == {<<-5, 5>>, <<-2, 2>>}
GRW_Resolutions == {LookupRes - 1, LookupRes}
GRW_Sigmas == {RInt(5), RInt(10)}

\* np.linspace(lo, hi, n)[k]
linspace(lo, hi, n, k) ==
  IF n = 1 THEN RInt(lo) ELSE RAdd(RInt(lo), Rat(k * (hi - lo), n - 1))

\* smallest integer >= x, for x >= 0
RCeil(x) == (x[1] + x[2] - 1) \div x[2]

\* scipy's norm.pdf(x, mu, sigma), up to its constant factor: a positive
\* kernel, symmetric in x - mu and decreasing in |x - mu| / sigma (the
\* exact Gaussian values are irrational; the distance is taken in whole
\* sigmas)
norm_pdf(x, mu, sigma) ==
  Rat(1, 1 + RCeil(RDiv(RAbs(RSub(x, mu)), sigma)))

\* 1 / (1 + np.exp(-s)): a sigmoid, strictly increasing, in (0, 1), 1/2 at 0
\* (the rational sigmoid 1/2 + s / (2 (1 + |s|)) stands for the logistic)
logistic(s) ==
  RAdd(RHalf, RDiv(s, RMul(RInt(2), RAdd(ROne, RAbs(s)))))

\* line 44: np.repeat(np.linspace(-5, 5, 70), 70)[m]
i_ax(m) == linspace(LookupMin, LookupMax, LookupRes, m \div LookupRes)
\* line 45: np.tile(np.linspace(-5, 5, 70), 70)[m]
j_ax(m) == linspace(LookupMin, LookupMax, LookupRes, m % LookupRes)

\* line 47: norm.pdf(i_ax, j_ax, sigma).reshape((s_res, s_res))[i, j];
\* the reshape needs s_res * s_res = 70 * 70 elements
normal_lookup(o, i, j) ==
  norm_pdf(i_ax(i * o.s_res + j), j_ax(i * o.s_res + j), o.sigma)

\* line 48: binom.pmf(1, 1, 1 / (1 + np.exp(-i_ax)))[i], a flat array of
\* 70 * 70 entries that lines 53-68 index by the grid point i
bernoulli_lookup(i) == logistic(i_ax(i))

\* the object before __init__ has run
GRW_New(seq, sigma, range, s_res, type, entry) ==
  [pc |-> "new", err |-> "", entry |-> entry, type |-> type,
   sequence |-> seq, T |-> 0, sigma |-> sigma,
   s_min |-> range[1], s_max |-> range[2], s_res |-> s_res,
   s_space |-> <<>>, repetition |-> <<>>,
   posterior |-> <<>>, posterior_naive |-> <<>>, posterior_lag |-> <<>>,
   P |-> <<>>, P_naive |-> <<>>, predictive |-> RZero,
   t |-> -1, loop_t |-> 0, updates |-> 0, calls |-> 0, results |-> 0]

GRW_zeros(n) == [k \in 0 .. 1 |-> [i \in 0 .. n - 1 |->
                   [j \in 0 .. n - 1 |-> RZero]]]

\* SBL_GRW.__init__ (lines 17-41)
GRW_init(o) ==
  LET T == Cardinality(DOMAIN o.sequence)
      n == o.s_res
  IN [o EXCEPT
        !.pc = "constructed", !.T = T,
        !.s_space = [k \in 0 .. n - 1 |-> linspace(o.s_min, o.s_max, n, k)],
        !.repetition = [t \in 0 .. T - 1 |->
            IF t >= 1 /\ o.sequence[t] = o.sequence[t - 1] THEN 1 ELSE 0],
        !.posterior = [k \in 0 .. n - 1 |-> Rat(1, n)],
        !.posterior_naive = [k \in 0 .. n - 1 |-> RZero],
        !.P = [t \in 0 .. T - 1 |-> GRW_zeros(n)],
        !.P_naive = GRW_zeros(n)]

\* lines 50-68: the joint table P[:, :, :, t]
GRW_joint(o) ==
  [k \in 0 .. 1 |-> [i \in 0 .. o.s_res - 1 |-> [j \in 0 .. o.s_res - 1 |->
     RMul(RMul(IF k = 1 THEN bernoulli_lookup(i)
                        ELSE RSub(ROne, bernoulli_lookup(i)),
               normal_lookup(o, i, j)),
          o.posterior[j])]]]

\* lines 80-81: np.sum(P_ij, 1)
GRW_sum_over_j(P_ij) == [i \in DOMAIN P_ij |-> RSum(P_ij[i])]

\* a slip in line 83: the total leaves out the first grid point
GRW_sum_over_ij_skip(P_sum_over_j) ==
  RSumOver(P_sum_over_j, DOMAIN P_sum_over_j \ {0})

\* lines 83-84: np.sum(P_sum_over_j)
GRW_sum_over_ij(P_sum_over_j) == RSum(P_sum_over_j)

\* line 86: the total of P[:, :, :, t]
GRW_sum_over_kij(Pt) ==
  RAdd(GRW_sum_over_ij(GRW_sum_over_j(Pt[0])),
       GRW_sum_over_ij(GRW_sum_over_j(Pt[1])))

\* SBL_GRW.update_posterior(t, type) (lines 43-94)
GRW_update_posterior(o, t, type) ==
  IF o.s_res * o.s_res # LookupRes * LookupRes
  THEN [o EXCEPT !.pc = "failed", !.err = "ValueError"]
  ELSE
    LET Pt == GRW_joint(o)
        filled == [o EXCEPT !.P[t] = Pt,
                            !.P_naive = IF t = 0 THEN Pt ELSE o.P_naive,
                            !.t = t]
    IN IF type \notin {"SP", "AP"}
       THEN [filled EXCEPT !.pc = "failed", !.err = "UnboundLocalError"]
       ELSE
         LET sel == IF type = "SP" THEN o.sequence[t] ELSE o.repetition[t]
             P_sum_over_j == GRW_sum_over_j(Pt[sel])
             P_sum_over_j_naive == GRW_sum_over_j(filled.P_naive[sel])
             P_sum_over_ij == GRW_sum_over_ij(P_sum_over_j)
             P_sum_over_ij_naive == GRW_sum_over_ij(P_sum_over_j_naive)
             P_sum_over_kij == GRW_sum_over_kij(Pt)
         IN [filled EXCEPT
               !.posterior_lag = o.posterior,
               !.posterior = [i \in DOMAIN P_sum_over_j |->
                                np_div(P_sum_over_j[i], P_sum_over_ij)],
               !.posterior_naive = [i \in DOMAIN P_sum_over_j_naive |->
                   np_div(P_sum_over_j_naive[i], P_sum_over_ij_naive)],
               !.predictive = np_div(P_sum_over_ij, P_sum_over_kij),
               !.updates = o.updates + 1]

(***************************************************************************)
(* Actions of the grid filter.  entry = "main": main() constructs and runs *)
(* compute_surprisal(type).  entry = "call": the caller invokes            *)
(* update_posterior(t, type) itself, as test_agent() does with t = 2.      *)
(***************************************************************************)
GRW_Construct ==
  /\ grw.pc = "new"
  /\ grw' = GRW_init(grw)
  /\ UNCHANGED <<cd, gen>>

\* compute_surprisal, line 102: the priming update at t = 1
GRW_ComputePrime ==
  /\ grw.pc = "constructed"
  /\ grw.entry = "main"
  /\ LET o == GRW_update_posterior(grw, 1, grw.type)
     IN grw' = IF o.pc = "failed" THEN o
               ELSE [o EXCEPT !.pc = "computing", !.loop_t = 2]
  /\ UNCHANGED <<cd, gen>>

\* compute_surprisal, lines 104-111: one iteration of the loop
GRW_ComputeStep ==
  /\ grw.pc = "computing"
  /\ grw.loop_t < grw.T
  /\ LET o == GRW_update_posterior(grw, grw.loop_t, grw.type)
     IN grw' = IF o.pc = "failed" THEN o
               ELSE [o EXCEPT !.loop_t = grw.loop_t + 1,
                              !.results = grw.results + 1]
  /\ UNCHANGED <<cd, gen>>

GRW_ComputeReturn ==
  /\ grw.pc = "computing"
  /\ grw.loop_t >= grw.T
  /\ grw' = [grw EXCEPT !.pc = "done"]
  /\ UNCHANGED <<cd, gen>>

\* test_agent, line 156, for any timestep of the sequence
GRW_UpdateCall ==
  /\ grw.pc = "constructed"
  /\ grw.entry = "call"
  /\ grw.calls < GRW_MaxCalls
  /\ \E t \in 0 .. grw.T - 1 :
       LET o == GRW_update_posterior(grw, t, grw.type)
       IN grw' = [o EXCEPT !.calls = grw.calls + 1]
  /\ UNCHANGED <<cd, gen>>

GRW_Idle == GRW_New([k \in 0 .. 1 |-> 0], RInt(5), <<-5, 5>>, LookupRes,
                    "SP", "main")


(***************************************************************************)
(* seq_gen: the sequence generator (src/seq_gen.py).  A Python number is   *)
(* [type, val]: type(x) is "float" or "int", val its value.  The           *)
(* configuration vectors are sequences: Python's v[i] is v[i + 1].         *)
(***************************************************************************)
PyFloat(n, d) == [type |-> "float", val |-> Rat(n, d)]
PyInt(n) == [type |-> "int", val |-> RInt(n)]

\* lines 45-46
obs_space == 2
regime_space == 2

RECURSIVE Pow(_, _)
Pow(b, n) == IF n = 0 THEN 1 ELSE b * Pow(b, n - 1)

Gen_Orders == {1, 2}

\* values passed as prob_catch and as prob_regime_change
Gen_Numbers == {PyFloat(0, 1), PyFloat(1, 10), PyFloat(1, 2), PyFloat(1, 1),
                PyFloat(3, 2), PyFloat(-1, 2), PyInt(0), PyInt(1)}

Gen_RegimeInits == {<<ROne>>, <<RHalf, RHalf>>,
                    <<RHalf, Rat(1, 4), Rat(1, 4)>>}

Gen_ObsInits == {<<RHalf, RHalf>>, <<RHalf, RHalf, RZero>>,
                 <<Rat(1, 4), Rat(1, 4), Rat(1, 4), Rat(1, 4)>>}

Gen_ObsProbs == {RZero, RHalf, ROne}

\* prob_obs_change: every list of 2 * 2 entries for order 1, the two
\* argument lists the source documents for order 2 (sbl_cat_dir.py line
\* 237, seq_gen.py line 316), an alternating one, and lists of other
\* lengths
Gen_ObsChanges ==
  {<<a, b, c, d>> : a \in Gen_ObsProbs, b \in Gen_ObsProbs,
                    c \in Gen_ObsProbs, d \in Gen_ObsProbs}
  \cup {<<Rat(3, 4), Rat(3, 20), Rat(17, 20), Rat(1, 4),
          RHalf, Rat(3, 4), Rat(1, 4), RHalf>>,
        <<Rat(9, 20), Rat(9, 20), Rat(1, 20), Rat(1, 20),
          Rat(1, 20), Rat(1, 20), Rat(9, 20), Rat(9, 20)>>,
        <<RZero, ROne, RZero, ROne, ROne, RZero, ROne, RZero>>,
        <<RHalf>>,
        <<RZero, ROne>>,
        <<RHalf, RHalf>>}

\* the object before __init__ has run.  The fields after
\* transition_matrices belong to sample: its argument seq_length, its
\* locals Q, act_regime and t, the array it returns (sample_seq), and two
\* records of what it did: trace[t] holds, for each row t it has finished,
\* whether Q[t, 1] came from a multinomial draw (lines 170, 179) and the
\* regime and row index of the last such draw, and flips is the parity of
\* the number of times lines 174-177 have run.
Gen_New(order, catch, rinit, rchange, oinit, ochange) ==
  [pc |-> "new", err |-> "", order |-> order, prob_catch |-> catch,
   prob_regime_init |-> rinit, prob_regime_change |-> rchange,
   prob_obs_init |-> oinit, prob_obs_change |-> ochange,
   transition_matrices |-> <<>>,
   seq_length |-> 0, Q |-> <<>>, act_regime |-> 0, t |-> 0,
   sample_seq |-> <<>>, trace |-> <<>>, flips |-> 0]

\* lines 67 and 69: type(x) != float or x > 1 or x < 0
not_float_in_unit(x) ==
  x.type # "float" \/ RLt(ROne, x.val) \/ RLt(x.val, RZero)

\* a slip in line 65: the catch entry of prob_obs_init is not discounted
check_input_dim_obs(g) ==
  IF Len(g.prob_regime_init) # regime_space
    THEN "Initial regime prob vector has wrong dim"
  ELSE IF Len(g.prob_obs_init) # obs_space
    THEN "Initial obs prob vector has wrong dim"
  ELSE IF not_float_in_unit(g.prob_regime_change)
    THEN "Regime change prob has to be a float between 0 and 1"
  ELSE IF not_float_in_unit(g.prob_catch)
    THEN "Catch probability has to be a float between 0 and 1"
  ELSE IF Len(g.prob_obs_change) # 2 * Pow(obs_space, g.order)
    THEN "Need to specify probs for emissions"
  ELSE ""

\* seq_gen.check_input_dim (lines 61-75): the message of the ValueError it
\* raises, "" when it raises none
check_input_dim(g) ==
  IF Len(g.prob_regime_init) # regime_space
    THEN "Initial regime prob vector has wrong dim"
  ELSE IF Len(g.prob_obs_init) - 1 # obs_space
    THEN "Initial obs prob vector has wrong dim"
  ELSE IF not_float_in_unit(g.prob_regime_change)
    THEN "Regime change prob has to be a float between 0 and 1"
  ELSE IF not_float_in_unit(g.prob_catch)
    THEN "Catch probability has to be a float between 0 and 1"
  ELSE IF Len(g.prob_obs_change) # 2 * Pow(obs_space, g.order)
    THEN "Need to specify probs for emissions"
  ELSE ""

\* lines 83-86 and 88-91: one row of a transition matrix, columns
\* P(next=0), P(next=1), P(catch), P(regime switch)
transition_row(p, c, r) ==
  [col \in 0 .. obs_space + 1 |->
     CASE col = 0 -> RSub(RSub(p, RMul(c, RHalf)), RMul(r, RHalf))
       [] col = 1 -> RSub(RSub(RSub(ROne, p), RMul(c, RHalf)),
                          RMul(r, RHalf))
       [] col = 2 -> c
       [] col = 3 -> r]

\* slips in lines 88-95: the rows of B_1 leave the regime-change share in
\* column 1, and the row check looks at B_0 twice
construct_transitions_b1(g) ==
  LET rows == Pow(obs_space, g.order)
      c == g.prob_catch.val
      r == g.prob_regime_change.val
      B_0 == [i \in 0 .. rows - 1 |->
                transition_row(g.prob_obs_change[i + 1], c, r)]
      B_1 == [i \in 0 .. rows - 1 |->
                [transition_row(g.prob_obs_change[i + rows + 1], c, r)
                   EXCEPT ![1] = RSub(RSub(ROne,
                                           g.prob_obs_change[i + rows + 1]),
                                      RMul(c, RHalf))]]
  IN IF \E row \in 0 .. rows - 1 :
          RSum(B_0[row]) # ROne \/ RSum(B_0[row]) # ROne
     THEN [ok |-> FALSE, B |-> <<>>]
     ELSE [ok |-> TRUE, B |-> [k \in 0 .. 1 |-> IF k = 0 THEN B_0 ELSE B_1]]

\* seq_gen.construct_transitions (lines 77-108): [ok, B]; ok is FALSE when
\* it raises "Matrices are not row stochastic"
construct_transitions(g) ==
  LET rows == Pow(obs_space, g.order)
      c == g.prob_catch.val
      r == g.prob_regime_change.val
      B_0 == [i \in 0 .. rows - 1 |->
                transition_row(g.prob_obs_change[i + 1], c, r)]
      B_1 == [i \in 0 .. rows - 1 |->
                transition_row(g.prob_obs_change[i + rows + 1], c, r)]
  IN IF \E row \in 0 .. rows - 1 :
          RSum(B_0[row]) # ROne \/ RSum(B_1[row]) # ROne
     THEN [ok |-> FALSE, B |-> <<>>]
     ELSE [ok |-> TRUE, B |-> [k \in 0 .. 1 |-> IF k = 0 THEN B_0 ELSE B_1]]

\* seq_gen.__init__ (lines 39-59)
Gen_init(g) ==
  LET msg == check_input_dim(g)
  IN IF msg # ""
     THEN [g EXCEPT !.pc = "failed", !.err = msg]
     ELSE LET res == construct_transitions(g)
          IN IF res.ok
             THEN [g EXCEPT !.pc = "constructed",
                            !.transition_matrices = res.B]
             ELSE [g EXCEPT !.pc = "failed",
                            !.err = "Matrices are not row stochastic"]

Gen_Construct ==
  /\ gen.pc = "new"
  /\ gen' = Gen_init(gen)
  /\ UNCHANGED <<cd, grw>>

(***************************************************************************)
(* seq_gen.sample (lines 148-191) and save (lines 194-196).  Q is a        *)
(* function over the rows 0..seq_length-1, each row a function over the    *)
(* columns 0 (hidden regime) and 1 (observation).                          *)
(***************************************************************************)
\* longest sequence asked of sample
MaxSeqLen == 4

\* np.random.multinomial(n, pvals).argmax() for n >= 1: the positions it
\* can return are those of positive probability.  When an entry lies
\* outside [0,1] the outcome depends on the numpy build: it raises
\* ValueError (position -1 here) or draws among the positive entries.
multinomial_argmax(pvals) ==
  {i \in DOMAIN pvals : RLt(RZero, pvals[i])}
  \cup (IF \E i \in DOMAIN pvals :
              RLt(pvals[i], RZero) \/ RLt(ROne, pvals[i])
        THEN {-1} ELSE {})

\* Q[k, 1] can be read: Python accepts -n <= k < n
Q_index_ok(n, k) == -n <= k /\ k < n

\* Q[k, 1]; a negative k counts from the end of the array
Q_obs(Q, n, k) == Q[k % n][1]

\* get_sample_idx, lines 129-131 (pair = TRUE) and 135-137 (pair = FALSE):
\* `while Q[counter, 1] == 2 [or Q[counter-1, 1] == 2]: counter -= 1`
RECURSIVE scan_back(_, _, _, _)
scan_back(Q, n, counter, pair) ==
  IF ~Q_index_ok(n, counter)
    THEN [err |-> "IndexError", counter |-> counter]
  ELSE IF Q_obs(Q, n, counter) = 2
    THEN scan_back(Q, n, counter - 1, pair)
  ELSE IF ~pair
    THEN [err |-> "", counter |-> counter]
  ELSE IF ~Q_index_ok(n, counter - 1)
    THEN [err |-> "IndexError", counter |-> counter]
  ELSE IF Q_obs(Q, n, counter - 1) = 2
    THEN scan_back(Q, n, counter - 1, pair)
  ELSE [err |-> "", counter |-> counter]

\* a slip in get_sample_idx: the row of context 0 whatever came before
get_sample_idx_first(Q, n, order, t_1, t_2) == [err |-> "", idx |-> 0]

\* seq_gen.get_sample_idx (lines 110-146): [err, idx]; err names the
\* exception it raises, "" when it returns idx
RECURSIVE get_sample_idx(_, _, _, _, _)
get_sample_idx(Q, n, order, t_1, t_2) ==
  IF ~Q_index_ok(n, t_1) THEN [err |-> "IndexError", idx |-> -1]
  ELSE LET a == Q_obs(Q, n, t_1)
       IN IF order = 1
          THEN CASE a = 0 -> [err |-> "", idx |-> 0]
                 [] a = 1 -> [err |-> "", idx |-> 1]
                 [] a = 2 -> [err |-> "NameError", idx |-> -1]
                 [] OTHER -> [err |-> "UnboundLocalError", idx |-> -1]
          ELSE IF order # 2
          THEN [err |-> "UnboundLocalError", idx |-> -1]
          ELSE IF a = 2
          THEN LET sc == scan_back(Q, n, t_1 - 1, TRUE)
               IN IF sc.err # "" THEN [err |-> sc.err, idx |-> -1]
                  ELSE get_sample_idx(Q, n, order, sc.counter,
                                      sc.counter - 1)
          ELSE IF ~Q_index_ok(n, t_2)
          THEN [err |-> "IndexError", idx |-> -1]
          ELSE LET b == Q_obs(Q, n, t_2)
               IN CASE a = 0 /\ b = 0 -> [err |-> "", idx |-> 0]
                    [] a = 0 /\ b = 1 -> [err |-> "", idx |-> 1]
                    [] a = 1 /\ b = 0 -> [err |-> "", idx |-> 2]
                    [] a = 1 /\ b = 1 -> [err |-> "", idx |-> 3]
                    [] b = 2 ->
                         LET sc == scan_back(Q, n, t_2 - 1, FALSE)
                         IN IF sc.err # "" THEN [err |-> sc.err, idx |-> -1]
                            ELSE get_sample_idx(Q, n, order, t_1, sc.counter)
                    [] OTHER -> [err |-> "UnboundLocalError", idx |-> -1]

\* sample, lines 158-164: Q is allocated and its first `order` rows are
\* seeded with one draw of the regime and one of the observation; then
\* act_regime = Q[1, 0], which needs a second row.  The set of the states
\* the draws can lead to.
Gen_sample_seed(g, n) ==
  {LET Q0 == [k \in 0 .. n - 1 |-> [c \in 0 .. 1 |->
                IF k >= g.order THEN 0
                ELSE IF c = 0 THEN r - 1 ELSE o - 1]]
       base == [g EXCEPT !.seq_length = n, !.Q = Q0, !.flips = 0,
                         !.sample_seq = <<>>, !.t = 0,
                         !.trace = [k \in 0 .. n - 1 |->
                            [drawn |-> FALSE, regime |-> -1, idx |-> -1,
                             flips |-> 0]]]
   IN IF r = -1 \/ o = -1
        THEN [base EXCEPT !.pc = "failed", !.err = "ValueError",
                          !.Q = <<>>, !.trace = <<>>]
      ELSE IF ~Q_index_ok(n, 1)
        THEN [base EXCEPT !.pc = "failed", !.err = "IndexError"]
      ELSE [base EXCEPT !.pc = "sampling", !.act_regime = Q0[1][0],
                        !.t = g.order]
   : r \in multinomial_argmax(g.prob_regime_init),
     o \in multinomial_argmax(g.prob_obs_init)}

\* lines 169-170 and 178-179: the row index is looked up and Q[t, 1] is
\* drawn from that row of the active regime's matrix
Gen_sample_draw(g) ==
  LET res == get_sample_idx(g.Q, g.seq_length, g.order, g.t - 1, g.t - 2)
  IN IF res.err # ""
     THEN {[g EXCEPT !.pc = "failed", !.err = res.err]}
     ELSE {IF o = -1
             THEN [g EXCEPT !.pc = "failed", !.err = "ValueError"]
           ELSE [g EXCEPT !.Q[g.t][1] = o,
                          !.trace[g.t] = [drawn |-> TRUE,
                                          regime |-> g.act_regime,
                                          idx |-> res.idx,
                                          flips |-> g.flips]]
           : o \in multinomial_argmax(
                     g.transition_matrices[g.act_regime][res.idx])}

\* lines 173 and 182: a switch outcome sends sample into (or keeps it in)
\* the redraw loop; any other outcome is kept, the row gets the active
\* regime and the for loop moves on
Gen_sample_close(g) ==
  IF g.pc = "failed" THEN g
  ELSE IF g.Q[g.t][1] = 3 THEN [g EXCEPT !.pc = "redraw"]
  ELSE [g EXCEPT !.pc = "sampling", !.Q[g.t][0] = g.act_regime,
                 !.trace[g.t].flips = g.flips, !.t = g.t + 1]

\* lines 174-177: the active regime is flipped
Gen_sample_flip(g) ==
  [g EXCEPT !.act_regime = IF @ = 0 THEN 1 ELSE IF @ = 1 THEN 0 ELSE @,
            !.flips = 1 - @]

\* a slip in lines 184-188: the hidden regime of a catch trial is left as
\* drawn
sample_output_unmarked(Q, n) ==
  [k \in 0 .. n - 1 |-> [c \in 0 .. 2 |->
     CASE c = 0 -> RInt(k)
       [] c = 1 -> RInt(Q[k][0])
       [] c = 2 -> IF Q[k][1] = 2 THEN RHalf ELSE RInt(Q[k][1])]]

\* lines 184-188: the float array sample returns; its columns are the
\* trial number, the hidden regime (2 on a catch trial) and the observation
\* (0.5 on a catch trial)
sample_output(Q, n) ==
  [k \in 0 .. n - 1 |-> [c \in 0 .. 2 |->
     CASE c = 0 -> RInt(k)
       [] c = 1 -> IF Q[k][1] = 2 THEN RInt(2) ELSE RInt(Q[k][0])
       [] c = 2 -> IF Q[k][1] = 2 THEN RHalf ELSE RInt(Q[k][1])]]

\* save, line 196: sequence[sequence[:, 2] == 0.5, 2] = 2
save_rewrite(sequence) ==
  [k \in DOMAIN sequence |->
     [sequence[k] EXCEPT ![2] = IF @ = RHalf THEN RInt(2) ELSE @]]

\* sample(seq_length) is called on a constructed generator
Gen_SampleSeed ==
  /\ gen.pc = "constructed"
  /\ \E n \in 1 .. MaxSeqLen : gen' \in Gen_sample_seed(gen, n)
  /\ UNCHANGED <<cd, grw>>

\* one pass of the for loop of sample up to its while loop (lines 165-173)
Gen_SampleStep ==
  /\ gen.pc = "sampling"
  /\ gen.t < gen.seq_length
  /\ gen' \in IF gen.Q[gen.t - 1][1] # 2
               THEN {Gen_sample_close(x) : x \in Gen_sample_draw(gen)}
               ELSE {Gen_sample_close(gen)}
  /\ UNCHANGED <<cd, grw>>

\* one pass of the while loop of sample (lines 173-179)
Gen_SampleRedraw ==
  /\ gen.pc = "redraw"
  /\ gen' \in {Gen_sample_close(x) :
                 x \in Gen_sample_draw(Gen_sample_flip(gen))}
  /\ UNCHANGED <<cd, grw>>

\* the for loop is over: lines 184-191
Gen_SampleReturn ==
  /\ gen.pc = "sampling"
  /\ gen.t >= gen.seq_length
  /\ gen' = [gen EXCEPT !.pc = "sampled",
                         !.sample_seq = sample_output(gen.Q, gen.seq_length)]
  /\ UNCHANGED <<cd, grw>>

\* sample_and_save hands the returned array to save (lines 211, 247)
Gen_Save ==
  /\ gen.pc = "sampled"
  /\ gen' = [gen EXCEPT !.pc = "saved",
                         !.sample_seq = save_rewrite(gen.sample_seq)]
  /\ UNCHANGED <<cd, grw>>

\* the configurations sample is run on
Sample_Catches == {PyFloat(0, 1), PyFloat(1, 4)}
Sample_RegimeChanges == {PyFloat(0, 1), PyFloat(1, 4), PyFloat(1, 1)}
Sample_RegimeInits == {<<RHalf, RHalf>>}
Sample_ObsInits == {<<RHalf, RHalf, RZero>>, <<Rat(1, 4), Rat(1, 4), RHalf>>}
Sample_ObsChanges ==
  {<<RZero, ROne>>,
   <<RZero, ROne, RZero, ROne>>,
   <<RHalf, RHalf, RHalf, RHalf>>,
   <<RHalf, RHalf, RHalf, RHalf, RHalf, RHalf, RHalf, RHalf>>,
   <<RZero, ROne, RZero, ROne, ROne, RZero, ROne, RZero>>}

Gen_Idle == Gen_New(1, PyFloat(0, 1), <<RHalf, RHalf>>, PyFloat(0, 1),
                    <<RHalf, RHalf, RZero>>,
                    <<RHalf, RHalf, RHalf, RHalf>>)

(***************************************************************************)
(* Specifications: one per program.                                        *)
(***************************************************************************)
CD_Init ==
  /\ cd \in {CD_New(seq, decay, type, entry) :
               seq \in CD_Seqs, decay \in CD_Decays, type \in CD_Types,
               entry \in {"main", "test"}}
  /\ grw = GRW_Idle
  /\ gen = Gen_Idle

CD_Next ==
  \/ CD_Construct
  \/ CD_TestAgentUpdate
  \/ CD_ComputeEnter
  \/ CD_ComputeStep
  \/ CD_ComputeReturn

SpecCD == CD_Init /\ [][CD_Next]_vars

GRW_Init ==
  /\ grw \in {GRW_New(seq, sigma, range, s_res, type, entry) :
                seq \in GRW_Seqs, sigma \in GRW_Sigmas,
                range \in GRW_Ranges, s_res \in GRW_Resolutions,
                type \in GRW_Types, entry \in {"main", "call"}}
  /\ cd = CD_Idle
  /\ gen = Gen_Idle

GRW_Next ==
  \/ GRW_Construct
  \/ GRW_ComputePrime
  \/ GRW_ComputeStep
  \/ GRW_ComputeReturn
  \/ GRW_UpdateCall

SpecGRW == GRW_Init /\ [][GRW_Next]_vars

Gen_Init ==
  /\ gen \in {Gen_New(order, catch, rinit, rchange, oinit, ochange) :
                order \in Gen_Orders, catch \in Gen_Numbers,
                rinit \in Gen_RegimeInits, rchange \in Gen_Numbers,
                oinit \in Gen_ObsInits, ochange \in Gen_ObsChanges}
  /\ cd = CD_Idle
  /\ grw = GRW_Idle

Gen_Next == Gen_Construct

SpecGen == Gen_Init /\ [][Gen_Next]_vars

Sample_Init ==
  /\ gen \in {Gen_New(order, catch, rinit, rchange, oinit, ochange) :
                order \in Gen_Orders, catch \in Sample_Catches,
                rinit \in Sample_RegimeInits,
                rchange \in Sample_RegimeChanges,
                oinit \in Sample_ObsInits, ochange \in Sample_ObsChanges}
  /\ cd = CD_Idle
  /\ grw = GRW_Idle

Sample_Next ==
  \/ Gen_Construct
  \/ Gen_SampleSeed
  \/ Gen_SampleStep
  \/ Gen_SampleRedraw
  \/ Gen_SampleReturn
  \/ Gen_Save

SpecSample == Sample_Init /\ [][Sample_Next]_vars

Init == CD_Init \/ GRW_Init \/ Gen_Init \/ Sample_Init
Next == CD_Next \/ GRW_Next \/ Gen_Next \/ Sample_Next
Spec == Init /\ [][Next]_vars


(***************************************************************************)
(* Claims about the Dirichlet learner (checked under SpecCD).              *)
(***************************************************************************)
\* plain counts over the sequence, straight from the observations
CountObs(o, c) == Cardinality({k \in 0 .. o.t : o.sequence[k] = c})
CountRepeats(o) ==
  Cardinality({k \in 1 .. o.t : o.sequence[k] = o.sequence[k - 1]})
CountAlternations(o) ==
  Cardinality({k \in 1 .. o.t : o.sequence[k] # o.sequence[k - 1]})
CountTransitions(o, i, j) ==
  Cardinality({k \in 1 .. o.t :
                 o.sequence[k - 1] = i /\ o.sequence[k] = j})

\* update_posterior has run at a timestep t of the sequence, with tau = 0
UpdatedPlain(o) ==
  o.updated /\ o.decay = ROne /\ o.t >= 0 /\ o.t <= o.T - 1

PlainCountsSP(o) ==
  \A e \in DOMAIN o.alphas : o.alphas[e] = RInt(1 + CountObs(o, e[1]))

PlainCountsAP(o) ==
  \/ /\ o.alphas[<<0>>] = RInt(1 + CountRepeats(o))
     /\ o.alphas[<<1>>] = RInt(1 + CountAlternations(o))
  \/ /\ o.alphas[<<1>>] = RInt(1 + CountRepeats(o))
     /\ o.alphas[<<0>>] = RInt(1 + CountAlternations(o))

PlainCountsTP(o) ==
  \A e \in DOMAIN o.alphas :
    o.alphas[e] = RInt(1 + CountTransitions(o, e[1], e[2]))

\* C1: with tau = 0, after update at a timestep t in 0..T-1, every
\* pseudo-count is 1 plus the plain count of the timesteps k <= t at which
\* its indicator event occurred (SP: sequence[k] = c; AP: repeats in one
\* entry and alternations in the other, over k >= 1; TP: transitions i -> j
\* over k >= 1).
C1_PlainCounts ==
  UpdatedPlain(cd) =>
    CASE cd.type = "SP" -> PlainCountsSP(cd)
      [] cd.type = "AP" -> PlainCountsAP(cd)
      [] cd.type = "TP" -> PlainCountsTP(cd)

\* The parts of C1 the code keeps: the SP and TP counts, and the AP
\* repeat count; the AP alternation entry also counts timestep 0.
C1_PlainCountsKept ==
  UpdatedPlain(cd) =>
    CASE cd.type = "SP" -> PlainCountsSP(cd)
      [] cd.type = "AP" ->
           /\ cd.alphas[<<0>>] = RInt(1 + CountRepeats(cd))
           /\ cd.alphas[<<1>>] = RInt(1 + CountAlternations(cd)
                                        + (IF cd.t >= 1 THEN 1 ELSE 0))
      [] cd.type = "TP" -> PlainCountsTP(cd)

\* the predictive distribution recorded by the last iteration of
\* compute_surprisal
HasPredictive(o) == o.results # <<>>

\* C2: the predictive distribution sums to 1 over the outcome categories:
\* over all entries for SP and AP, and for TP over the next categories j
\* for each from-category i.
C2_PredictiveSumsToOne ==
  HasPredictive(cd) =>
    IF cd.type = "TP"
    THEN \A i \in 0 .. cd.no_obs - 1 :
           RSum([j \in 0 .. cd.no_obs - 1 |-> cd.predictive[<<i, j>>]])
             = ROne
    ELSE RSum(cd.predictive) = ROne

\* What the code normalizes for TP: over the from-categories i, for each
\* next category j.
C2_PredictiveAxis0 ==
  HasPredictive(cd) =>
    IF cd.type = "TP"
    THEN \A j \in 0 .. cd.no_obs - 1 :
           RSum([i \in 0 .. cd.no_obs - 1 |-> cd.predictive[<<i, j>>]])
             = ROne
    ELSE RSum(cd.predictive) = ROne

\* the entry update_posterior credits for the outcome realized at t >= 1
Credited(o, t) ==
  CASE o.type = "SP" -> <<o.sequence[t]>>
    [] o.type = "AP" ->
         CHOOSE e \in DOMAIN o.alphas :
           CD_indicator(o, e, t) = 1
    [] o.type = "TP" -> <<o.sequence[t - 1], o.sequence[t]>>

\* C3: in every record of compute_surprisal for t >= 1, the probability
\* whose negative log is the predictive surprisal is that of the entry
\* update credits for the realized outcome (the term update sums for that
\* entry at t is 1).
C3_SurprisalOfRealizedOutcome ==
  \A n \in 1 .. Len(cd.results) :
    LET rec == cd.results[n]
    IN rec.t >= 1 =>
         /\ CD_indicator(cd, rec.ind, rec.t) = 1
         /\ rec.ind = Credited(cd, rec.t)


(***************************************************************************)
(* Claims about the grid filter (checked under SpecGRW).                   *)
(***************************************************************************)
\* a vector of finite, non-negative numbers of total 1
IsDistribution(v) ==
  /\ \A i \in DOMAIN v : IsFinite(v[i]) /\ RLe(RZero, v[i])
  /\ RSum(v) = ROne

\* the slice of the joint table that the last update selected
RealizedSlice(o) ==
  o.P[o.t][IF o.type = "SP" THEN o.sequence[o.t] ELSE o.repetition[o.t]]

TableMass(P_ij) ==
  RSum([i \in DOMAIN P_ij |-> RSum(P_ij[i])])

\* C4: after every completed call of update_posterior, whenever the
\* realized-category slice has positive total mass, the posterior is
\* non-negative and sums to 1 over the grid points.
C4_PosteriorNormalized ==
  (grw.updates > 0 /\ RLt(RZero, TableMass(RealizedSlice(grw))))
    => IsDistribution(grw.posterior)

\* C4's case: compute_surprisal has updated twice in AP mode and the last
\* update moved the posterior.
C4_Witness ==
  /\ grw.updates >= 2
  /\ grw.entry = "main"
  /\ grw.type = "AP"
  /\ grw.posterior # grw.posterior_lag
  /\ RLt(RZero, TableMass(RealizedSlice(grw)))

\* C5: the lookups that update uses are indexed by the configured grid
\* points: the emission probability of grid point i is logistic(s_i) and the
\* transition density of the pair (i, j) is N(s_i; s_j, sigma), for the
\* s_res points s of [s_min, s_max].
C5_LookupsOnConfiguredGrid ==
  grw.t >= 0 =>
    \A i \in 0 .. grw.s_res - 1 :
      /\ bernoulli_lookup(i) = logistic(grw.s_space[i])
      /\ \A j \in 0 .. grw.s_res - 1 :
           normal_lookup(grw, i, j) =
             norm_pdf(grw.s_space[i], grw.s_space[j], grw.sigma)

\* What the code's lookups hold: every grid point gets the emission
\* probability of the first point of the fixed grid, and the transition
\* densities are those of the fixed grid.
C5_LookupsOnFixedGrid ==
  grw.t >= 0 =>
    \A i \in 0 .. grw.s_res - 1 :
      /\ bernoulli_lookup(i) = logistic(RInt(LookupMin))
      /\ \A j \in 0 .. grw.s_res - 1 :
           normal_lookup(grw, i, j) =
             norm_pdf(linspace(LookupMin, LookupMax, LookupRes, i),
                      linspace(LookupMin, LookupMax, LookupRes, j),
                      grw.sigma)

\* C6: during compute_surprisal, after every update the naive marginal is
\* a probability distribution over the grid, and the naive joint table it
\* is normalized from is not all-zero.
C6_NaiveMarginalTracked ==
  (grw.entry = "main" /\ grw.updates > 0) =>
    /\ \E k \in 0 .. 1 : TableMass(grw.P_naive[k]) # RZero
    /\ IsDistribution(grw.posterior_naive)

\* What compute_surprisal leaves: the naive table is never filled, and the
\* naive marginal is 0/0 at every grid point.
C6_NaiveMarginalNaN ==
  (grw.entry = "main" /\ grw.updates > 0) =>
    /\ grw.P_naive = GRW_zeros(grw.s_res)
    /\ \A i \in DOMAIN grw.posterior_naive : grw.posterior_naive[i] = NaN

(***************************************************************************)
(* Claims about the generator's constructor (checked under SpecGen).       *)
(***************************************************************************)
IsProbability(x) == RLe(RZero, x.val) /\ RLe(x.val, ROne)
IsFloatProbability(x) == x.type = "float" /\ IsProbability(x)

\* the four entries of every row of both matrices sum to 1
RowsSumToOne(B) ==
  \A k \in DOMAIN B : \A row \in DOMAIN B[k] :
    /\ DOMAIN B[k][row] = 0 .. 3
    /\ RAdd(RAdd(B[k][row][0], B[k][row][1]),
            RAdd(B[k][row][2], B[k][row][3])) = ROne

\* the rows that lines 83-91 build from a configuration of the right shape
\* sum to 1
ConfiguredRowsSumToOne(g) ==
  \A i \in 1 .. Len(g.prob_obs_change) :
    LET p == g.prob_obs_change[i]
        c == g.prob_catch.val
        r == g.prob_regime_change.val
    IN RAdd(RAdd(RSub(RSub(p, RMul(c, RHalf)), RMul(r, RHalf)),
                 RSub(RSub(RSub(ROne, p), RMul(c, RHalf)), RMul(r, RHalf))),
            RAdd(c, r)) = ROne

C8_RowsSumToOne ==
  gen.pc = "constructed" => RowsSumToOne(gen.transition_matrices)

\* C8's case: an order-2 generator with catch trials and regime switches
\* has been constructed.
C8_Witness ==
  /\ gen.pc = "constructed"
  /\ gen.order = 2
  /\ RLt(RZero, gen.prob_catch.val)
  /\ RLt(RZero, gen.prob_regime_change.val)
  /\ gen.transition_matrices[0] # gen.transition_matrices[1]

\* C9: every accepted configuration yields matrices whose every entry is
\* a probability in [0, 1].
C9_EntriesAreProbabilities ==
  gen.pc = "constructed" =>
    \A k \in DOMAIN gen.transition_matrices :
      \A row \in DOMAIN gen.transition_matrices[k] :
        \A col \in DOMAIN gen.transition_matrices[k][row] :
          /\ RLe(RZero, gen.transition_matrices[k][row][col])
          /\ RLe(gen.transition_matrices[k][row][col], ROne)

(***************************************************************************)
(* Claim about both learners' model variant (checked under SpecGRW).       *)
(***************************************************************************)
\* C10: a variant string outside the supported set is rejected when the
\* learner is constructed, so no update or compute step runs with it: the
\* Dirichlet learner is never constructed with one, and the grid filter
\* (whose variant is an argument of compute_surprisal and update_posterior)
\* never starts an update with one.
C10_InvalidVariantRejected ==
  /\ cd.type \notin {"SP", "AP", "TP"} =>
       (cd.pc \in {"new", "failed"} /\ ~cd.updated)
  /\ grw.type \notin {"SP", "AP"} => grw.t = -1

\* The Dirichlet learner's half of C10, which the code keeps.
C10_DirichletVariantRejected ==
  cd.type \notin {"SP", "AP", "TP"} =>
    (cd.pc \in {"new", "failed"} /\ ~cd.updated)

(***************************************************************************)
(* C11: the update at the first observation, AP and TP.                    *)
(***************************************************************************)
\* the state holds the result of an update call made at t = 0 by the
\* alternation or the transition learner
FirstObservationUpdate(o) ==
  o.updated /\ o.t = 0 /\ o.type \in {"AP", "TP"}

\* C11: when the alternation (AP) or transition (TP) learner has been
\* updated at t = 0, the call has not raised, it has printed its warning,
\* and the Dirichlet state is the uniform prior (two ones for AP, a
\* no_obs x no_obs table of ones for TP), whatever the state held before
\* and whatever the sequence.
C11_FirstUpdateIsPrior ==
  FirstObservationUpdate(cd) =>
    /\ cd.err = ""
    /\ cd.pc \in {"computing", "done"}
    /\ cd.warning # ""
    /\ cd.alphas = CD_ones(cd.type, cd.no_obs)
    /\ cd.type = "AP" => DOMAIN cd.alphas = {<<0>>, <<1>>}
    /\ cd.type = "TP" =>
          DOMAIN cd.alphas = (0 .. cd.no_obs - 1) \X (0 .. cd.no_obs - 1)

\* an AP learner whose state was not the prior (test_agent had updated it at
\* t = 2) has been updated at t = 0
C11_Witness ==
  /\ FirstObservationUpdate(cd)
  /\ cd.type = "AP"
  /\ cd.entry = "test"
  /\ cd.alphas_old # CD_ones(cd.type, cd.no_obs)
  /\ cd.alphas = CD_ones(cd.type, cd.no_obs)

(***************************************************************************)
(* C12: the deterministic alternating configuration.                       *)
(***************************************************************************)
\* order 1, no regime change, no catch trials, and the given prob_obs_change
AlternatingConfig(g, ochange) ==
  /\ g.order = 1
  /\ g.prob_regime_change = PyFloat(0, 1)
  /\ g.prob_catch = PyFloat(0, 1)
  /\ g.prob_obs_change = ochange

\* __init__ has raised
\* (sample has not been entered: it sets seq_length first)
ConstructionFailed(g) == g.pc = "failed" /\ g.seq_length = 0

\* the rows of Q that sample has finished
FinishedRows(g) ==
  IF g.pc \in {"sampling", "redraw", "sampled", "saved"}
  THEN 0 .. g.t - 1 ELSE {}

\* every finished observation differs from the one before it, in Q and in
\* the returned array
Alternates(g) ==
  /\ \A t \in FinishedRows(g) : t >= 1 => g.Q[t][1] # g.Q[t - 1][1]
  /\ \A t \in DOMAIN g.sample_seq :
       t >= 1 => g.sample_seq[t][2] # g.sample_seq[t - 1][2]

\* C12 as stated: with order = 1, regime_change = 0, catch_probability = 0
\* and obs_change = [0.0, 1.0] the generator is constructed successfully and
\* every sampled sequence alternates (observation[t] # observation[t-1] for
\* all t >= 1).
C12_AlternatesTwoEntries ==
  AlternatingConfig(gen, <<RZero, ROne>>) =>
    /\ ~ConstructionFailed(gen)
    /\ Alternates(gen)

\* C12 with the list the constructor takes for order 1: with order = 1,
\* regime_change = 0.0, catch_probability = 0.0 and
\* obs_change = [0.0, 1.0, 0.0, 1.0] the generator is constructed
\* successfully and every sampled sequence alternates.
C12_AlternatesFourEntries ==
  AlternatingConfig(gen, <<RZero, ROne, RZero, ROne>>) =>
    /\ ~ConstructionFailed(gen)
    /\ Alternates(gen)

\* a sequence of three or more trials starting with 1 has been sampled
\* from the four-entry configuration
C12_Witness ==
  /\ AlternatingConfig(gen, <<RZero, ROne, RZero, ROne>>)
  /\ gen.pc = "sampled"
  /\ gen.seq_length >= 3
  /\ gen.Q[0][1] = 1
  /\ gen.sample_seq[1][2] = RZero
  /\ gen.sample_seq[2][2] = ROne

(***************************************************************************)
(* C13: the step after a catch trial.                                      *)
(***************************************************************************)
\* the rows t >= order that sample has finished and whose predecessor is a
\* catch trial
AfterCatchRows(g) ==
  {t \in FinishedRows(g) : t >= g.order /\ g.Q[t - 1][1] = 2}

\* the nearest row before t that is not a catch trial; -1 when there is none
RECURSIVE NearestNonCatch(_, _)
NearestNonCatch(Q, t) ==
  IF t <= 0 THEN -1
  ELSE IF Q[t - 1][1] # 2 THEN t - 1
  ELSE NearestNonCatch(Q, t - 1)

\* C13: at every step t >= order whose predecessor t-1 is a catch trial,
\* the observation at t is still drawn, from a row of the active regime's
\* matrix, at the context index given by the nearest preceding non-catch
\* observations (for order 1: the nearest preceding non-catch observation);
\* it is not a fixed constant.
C13_DrawnAfterCatch ==
  \A t \in AfterCatchRows(gen) :
    /\ gen.trace[t].drawn
    /\ gen.trace[t].regime \in {0, 1}
    /\ (gen.order = 1 /\ NearestNonCatch(gen.Q, t) >= 0) =>
          gen.trace[t].idx = gen.Q[NearestNonCatch(gen.Q, t)][1]

\* what sample does instead: line 167 skips the draw after a catch trial,
\* and the observation keeps the 0 that np.zeros put there
C13_ZeroAfterCatch ==
  \A t \in AfterCatchRows(gen) :
    ~gen.trace[t].drawn /\ gen.Q[t][1] = 0

(***************************************************************************)
(* C14: the regime-switch redraw loop.                                     *)
(***************************************************************************)
\* the outcomes a pass of the while loop can draw: the flipped regime's row
\* at the context index
RedrawOutcomes(g) ==
  LET f == Gen_sample_flip(g)
      res == get_sample_idx(f.Q, f.seq_length, f.order, f.t - 1, f.t - 2)
  IN IF res.err # "" THEN {}
     ELSE multinomial_argmax(f.transition_matrices[f.act_regime][res.idx])

\* the outcomes the pass after that can draw, when this one draws a switch
RedrawOutcomesNext(g) ==
  LET f == Gen_sample_flip(Gen_sample_flip(g))
      res == get_sample_idx(f.Q, f.seq_length, f.order, f.t - 1, f.t - 2)
  IN IF res.err # "" THEN {}
     ELSE multinomial_argmax(f.transition_matrices[f.act_regime][res.idx])

\* C14: for every configuration the constructor accepts, the redraw loop
\* can be left: whenever sample is in the loop, some pass can draw an
\* outcome in {0, 1, catch}, so that fair draws leave the loop and sample
\* terminates; no accepted configuration makes every redraw a switch again.
C14_RedrawLoopExits ==
  gen.pc = "redraw" =>
    \E o \in RedrawOutcomes(gen) \cup RedrawOutcomesNext(gen) :
      o \in {0, 1, 2}

(***************************************************************************)
(* C15: the records of the returned sequence.                              *)
(***************************************************************************)
\* every record of the array holds an observation 0, 1 or `catch`, the
\* hidden regime 2 exactly on the catch trials and 0 or 1 otherwise, and no
\* outcome 3
RecordsWellFormed(sequence, catch) ==
  \A k \in DOMAIN sequence :
    /\ sequence[k][2] \in {RInt(0), RInt(1), catch}
    /\ sequence[k][2] = catch <=> sequence[k][1] = RInt(2)
    /\ sequence[k][2] # catch => sequence[k][1] \in {RInt(0), RInt(1)}
    /\ sequence[k][2] # RInt(3)

\* C15 as stated: in every sequence returned by sample, the observation is
\* in {0, 1, 2} with 2 a catch trial, the hidden regime is 2 exactly when
\* the observation is a catch trial and in {0, 1} otherwise, and no record
\* holds the outcome 3.
C15_ReturnedRecords ==
  gen.pc \in {"sampled", "saved"} =>
    RecordsWellFormed(gen.sample_seq, RInt(2))

\* C15 with the coding the code uses: the same holds of the array sample
\* returns with the catch observation written 0.5, and of the array after
\* save has rewritten it with the catch observation written 2.
C15_ReturnedThenSaved ==
  /\ gen.pc = "sampled" => RecordsWellFormed(gen.sample_seq, RHalf)
  /\ gen.pc = "saved" => RecordsWellFormed(gen.sample_seq, RInt(2))

\* a saved sequence that holds a catch trial, a 0 and a 1
C15_Witness ==
  /\ gen.pc = "saved"
  /\ \E k \in DOMAIN gen.sample_seq :
       gen.sample_seq[k][2] = RInt(2) /\ gen.sample_seq[k][1] = RInt(2)
  /\ \E k \in DOMAIN gen.sample_seq : gen.sample_seq[k][2] = RInt(0)
  /\ \E k \in DOMAIN gen.sample_seq :
       gen.sample_seq[k][2] = RInt(1) /\ gen.sample_seq[k][1] = RInt(1)

(***************************************************************************)
(* C16: the constructor of the Dirichlet learner.                          *)
(***************************************************************************)
\* C16: constructing the Dirichlet learner succeeds for SP, AP and TP on
\* every sequence of length >= 2 over {0, 1} or {0, 1, 2}: no column index
\* written into stim_ind or transitions falls outside their no_obs columns.
C16_ConstructorInBounds ==
  (/\ cd.pc # "new"
   /\ cd.type \in {"SP", "AP", "TP"}
   /\ Cardinality(DOMAIN cd.sequence) >= 2) =>
    /\ ~(cd.pc = "failed" /\ ~cd.updated)
    /\ CD_init_index_ok(cd.sequence, cd.T, cd.no_obs)

(***************************************************************************)
(* C17: the active regime.                                                 *)
(***************************************************************************)
\* the seeded regime flipped once per switch counted in `flips`
SeedFlipped(g, flips) == (g.Q[0][0] + flips) % 2

\* C17: for order 1 and order 2, the regime active when the first non-seed
\* step t = order is drawn is the seeded initial regime recorded in the
\* seed rows, and it changes only by one flip per switch outcome: the active
\* regime, and the hidden label of every step sample has finished, is the
\* seeded regime flipped once per switch drawn so far.
C17_ActiveRegimeIsSeeded ==
  gen.pc \in {"sampling", "redraw", "sampled", "saved"} =>
    /\ gen.act_regime = SeedFlipped(gen, gen.flips)
    /\ \A t \in FinishedRows(gen) :
         /\ gen.Q[t][0] = SeedFlipped(gen, gen.trace[t].flips)
         /\ gen.trace[t].drawn =>
              gen.trace[t].regime = SeedFlipped(gen, gen.trace[t].flips)

\* the same for order 2 alone, where row 1 is a seed row
C17_ActiveRegimeIsSeededOrder2 ==
  gen.order = 2 => C17_ActiveRegimeIsSeeded

====
